---------------------------- MODULE Spec2Model ----------------------------
(***************************************************************************)
(* A model of biomedical_qa/tools/bioasq2squad.py: the conversion of a     *)
(* BioASQ question file into SQuAD-style train/dev paragraph files.        *)
(*                                                                         *)
(* Python strings are sequences of one-character strings; offsets into a   *)
(* string are 0-based as in Python, so the character at offset p of s is   *)
(* s[p + 1].  Python lists and tuples are sequences.                       *)
(***************************************************************************)
EXTENDS Integers, Sequences, FiniteSets, TLC

VARIABLES
    \* get_answers(question, context)
    question, context, answers,
    \* get_context(question)
    snippets, context_result,
    \* split_paragraphs(paragraphs) on the global np.random state
    paragraphs, rng, split_result,
    \* two independent processes importing the module and splitting
    procs,
    \* convert_to_squad(bioasq_file_path, out_dir)
    data, pc, filtered, built, warnings, run

vars == <<question, context, answers, snippets, context_result,
          paragraphs, rng, split_result, procs,
          data, pc, filtered, built, warnings, run>>

answerVars  == <<question, context, answers>>
contextVars == <<snippets, context_result>>
splitVars   == <<paragraphs, rng, split_result>>
convertVars == <<data, pc, filtered, built, warnings, run>>

-----------------------------------------------------------------------------
(* Characters and the str methods the program uses.                        *)

LowerLetters == {"a", "b", "e", "h", "t"}
UpperLetters == {"A", "B", "T"}
Whitespace   == {" ", "\n"}

\* \w of the re module on the characters of the model
IsWordChar(c) == c \in LowerLetters \cup UpperLetters

\* \W
IsNonWordChar(c) == ~IsWordChar(c)

\* \s, and what str.strip() removes
IsSpaceChar(c) == c \in Whitespace

LowerChar(c) ==
    CASE c = "A" -> "a"
      [] c = "B" -> "b"
      [] c = "T" -> "t"
      [] OTHER   -> c

\* str.lower()
Lower(s) == [i \in 1..Len(s) |-> LowerChar(s[i])]

\* s[from:] for a 0-based offset
Suffix(s, from) == SubSeq(s, from + 1, Len(s))

\* sub == s[p : p + len(sub)]
OccursAt(s, sub, p) ==
    /\ p >= 0
    /\ p + Len(sub) <= Len(s)
    /\ SubSeq(s, p + 1, p + Len(sub)) = sub

\* the Python operator: sub in s
Contains(s, sub) == \E p \in 0..Len(s) : OccursAt(s, sub, p)

\* str.startswith
StartsWith(s, prefix) == OccursAt(s, prefix, 0)

\* str.strip()
Strip(s) ==
    LET keep == {i \in 1..Len(s) : ~IsSpaceChar(s[i])}
    IN  IF keep = {} THEN <<>>
        ELSE LET lo == CHOOSE i \in keep : \A j \in keep : i <= j
                 hi == CHOOSE i \in keep : \A j \in keep : j <= i
             IN  SubSeq(s, lo, hi)

The_ == <<"t", "h", "e", " ">>

\* re.search(r"[^\w]$", answer) is not None; $ also matches before a final "\n"
EndsWithNonWord(s) ==
    \/ Len(s) >= 1 /\ IsNonWordChar(s[Len(s)])
    \/ Len(s) >= 2 /\ s[Len(s)] = "\n" /\ IsNonWordChar(s[Len(s) - 1])

clean_answer(answer) ==
    LET a1 == Lower(Strip(answer))
        a2 == IF StartsWith(a1, The_) THEN Suffix(a1, 4) ELSE a1
    IN  IF EndsWithNonWord(a2) THEN SubSeq(a2, 1, Len(a2) - 1) ELSE a2

-----------------------------------------------------------------------------
(* find_all_substring_positions: three re.finditer scans.                  *)

\* the three search strings, in the order of the list search_strings
SearchStrings == <<"interior", "leading", "trailing">>

\* where $ matches: at the end of the string and before a final newline
AtEnd(string, e) ==
    \/ e = Len(string)
    \/ e = Len(string) - 1 /\ string[Len(string)] = "\n"

\* the number of characters a match of the search string consumes
MatchLen(kind, substring) ==
    IF kind = "interior" THEN Len(substring) + 2 ELSE Len(substring) + 1

\* the search string matches with its first character at offset s
MatchAt(kind, string, substring, s) ==
    CASE kind = "interior" ->
           /\ s + Len(substring) + 2 <= Len(string)
           /\ IsNonWordChar(string[s + 1])
           /\ OccursAt(string, substring, s + 1)
           /\ IsNonWordChar(string[s + Len(substring) + 2])
      [] kind = "leading" ->
           /\ s = 0
           /\ Len(substring) + 1 <= Len(string)
           /\ OccursAt(string, substring, 0)
           /\ IsNonWordChar(string[Len(substring) + 1])
      [] kind = "trailing" ->
           /\ s + Len(substring) + 1 <= Len(string)
           /\ IsNonWordChar(string[s + 1])
           /\ OccursAt(string, substring, s + 1)
           /\ AtEnd(string, s + Len(substring) + 1)

\* re.finditer: the starts of the non-overlapping matches at or after pos,
\* left to right, each scan resuming where the previous match ended
RECURSIVE FindIter(_, _, _, _)
FindIter(kind, string, substring, pos) ==
    LET hits == {s \in pos..Len(string) : MatchAt(kind, string, substring, s)}
    IN  IF hits = {} THEN <<>>
        ELSE LET s == CHOOSE h \in hits : \A g \in hits : h <= g
             IN  <<s>> \o FindIter(kind, string, substring,
                                   s + MatchLen(kind, substring))

\* [m.start() + 1 for m in re.finditer(search_string, string)]
StartsPlusOne(kind, string, substring) ==
    LET ms == FindIter(kind, string, substring, 0)
    IN  [i \in 1..Len(ms) |-> ms[i] + 1]

find_all_substring_positions(string, substring) ==
    IF Len(substring) = 0 THEN <<>>
    ELSE StartsPlusOne(SearchStrings[1], string, substring)
         \o StartsPlusOne(SearchStrings[2], string, substring)
         \o StartsPlusOne(SearchStrings[3], string, substring)

-----------------------------------------------------------------------------
(* get_answers.  exact_answer is a Python str or a list whose elements are *)
(* strs or lists of alternative strs:                                      *)
(*   a str   is [kind |-> "str",  str |-> s,    items |-> <<>>]            *)
(*   a list  is [kind |-> "list", str |-> <<>>, items |-> <<...>>]         *)

PyStr(s)      == [kind |-> "str",  str |-> s,    items |-> <<>>]
PyList(items) == [kind |-> "list", str |-> <<>>, items |-> items]

\* isinstance(a, str)
IsStr(a) == a.kind = "str"

\* what "for a in x" yields: the elements of a list, the characters of a str
Iterate(x) ==
    IF IsStr(x) THEN [i \in 1..Len(x.str) |-> PyStr(<<x.str[i]>>)]
    ELSE x.items

\* find_best_answer, answers a list of strs; "IndexError" is answers[0] on []
find_best_answer(ctx, alts) ==
    LET good == {i \in 1..Len(alts) :
                    Contains(ctx, Lower(alts[i])) /\ Len(alts[i]) > 0}
    IN  IF good # {} THEN alts[CHOOSE i \in good : \A j \in good : i <= j]
        ELSE alts[1]

\* the alternatives of a slot as strs
Alternatives(a) == [i \in 1..Len(a.items) |-> a.items[i].str]

\* a if isinstance(a, str) else find_best_answer(a)
ChosenAnswer(ctx, a) ==
    IF IsStr(a) THEN a.str ELSE find_best_answer(ctx, Alternatives(a))

\* find_best_answer raises IndexError on this slot
RaisesIndexError(ctx, a) ==
    /\ ~IsStr(a)
    /\ Len(a.items) = 0

RECURSIVE Concat(_)
Concat(seqs) ==
    IF Len(seqs) = 0 THEN <<>> ELSE Head(seqs) \o Concat(Tail(seqs))

\* the answer objects of one chosen answer
AnswerObjects(ctx, answer) ==
    LET text == clean_answer(answer)
        ps   == find_all_substring_positions(ctx, text)
    IN  [i \in 1..Len(ps) |-> [answer_start |-> ps[i], text |-> text]]

\* status "ok": the list returned; "None": return None after the warning;
\* "IndexError", "AssertionError": the exception raised
get_answers(q, c) ==
    LET ctx   == Lower(c)
        slots == Iterate(q.exact_answer)
    IN  IF \E i \in 1..Len(slots) : RaisesIndexError(ctx, slots[i])
        THEN [status |-> "IndexError", answers |-> <<>>]
        ELSE IF Len(slots) = 0
        THEN [status |-> "AssertionError", answers |-> <<>>]
        ELSE LET chosen  == [i \in 1..Len(slots) |-> ChosenAnswer(ctx, slots[i])]
                 objects == Concat([i \in 1..Len(chosen) |->
                                       AnswerObjects(ctx, chosen[i])])
             IN  IF Len(objects) = 0
                 THEN [status |-> "None", answers |-> <<>>]
                 ELSE [status |-> "ok", answers |-> objects]

-----------------------------------------------------------------------------
(* get_context: de-duplicated snippets up to the token limit.              *)

CONTEXT_TOKEN_LIMIT == 700

\* len(TOKENIZER.tokenize(text)) for RegexpTokenizer(r'\w+|[^\w\s]'): one
\* token per maximal run of word characters and per other non-space character
NumTokens(text) ==
    Cardinality({i \in 1..Len(text) :
        \/ IsWordChar(text[i]) /\ (i = 1 \/ ~IsWordChar(text[i - 1]))
        \/ ~IsWordChar(text[i]) /\ ~IsSpaceChar(text[i])})

\* " ".join(strings)
RECURSIVE Join(_)
Join(strings) ==
    IF Len(strings) = 0 THEN <<>>
    ELSE IF Len(strings) = 1 THEN strings[1]
    ELSE strings[1] \o <<" ">> \o Join(Tail(strings))

\* if snippet in snippets_set: continue
IsDuplicateSnippet(snippet, snippets_set) == snippet \in snippets_set

\* the limit test off by one: a count of exactly the limit is cut
OverTokenLimit_AtLimit(num_tokens) == num_tokens >= CONTEXT_TOKEN_LIMIT

\* if num_tokens > CONTEXT_TOKEN_LIMIT
OverTokenLimit(num_tokens) == num_tokens > CONTEXT_TOKEN_LIMIT

\* the for loop of get_context from the i-th snippet on
RECURSIVE ContextLoop(_, _, _, _, _)
ContextLoop(texts, i, num_tokens, snippets_set, filtered_tickets) ==
    IF i > Len(texts)
    THEN [status |-> "done", context |-> Join(filtered_tickets),
          did_truncate |-> FALSE]
    ELSE IF IsDuplicateSnippet(texts[i], snippets_set)
    THEN ContextLoop(texts, i + 1, num_tokens, snippets_set, filtered_tickets)
    ELSE LET n == num_tokens + NumTokens(texts[i])
         IN  IF OverTokenLimit(n)
             THEN [status |-> "done", context |-> Join(filtered_tickets),
                   did_truncate |-> TRUE]
             ELSE ContextLoop(texts, i + 1, n, snippets_set \cup {texts[i]},
                              Append(filtered_tickets, texts[i]))

get_context(q) ==
    ContextLoop([i \in 1..Len(q.snippets) |-> q.snippets[i].text],
                1, 0, {}, <<>>)

-----------------------------------------------------------------------------
(* split_paragraphs on the global generator np.random.                     *)
(*                                                                         *)
(* The generator state is a natural number read as a stream of digits:     *)
(* a draw of a permutation of range(n) consumes one digit of base n!, the  *)
(* index of the permutation drawn, and leaves the rest as the new state.   *)
(* Every permutation is the outcome of some state, and equal states give   *)
(* equal draws.                                                            *)

\* TRAIN_FRACTION = 0.8, in tenths
TRAIN_FRACTION_TENTHS == 8

\* np.random.seed(1234)
SEED == 1234

RECURSIVE Factorial(_)
Factorial(n) == IF n <= 1 THEN 1 ELSE n * Factorial(n - 1)

\* the sequence pool without its k-th element
Without(pool, k) == SubSeq(pool, 1, k - 1) \o SubSeq(pool, k + 1, Len(pool))

\* the permutation of pool that the digit code selects
RECURSIVE Shuffle(_, _)
Shuffle(code, pool) ==
    IF Len(pool) = 0 THEN <<>>
    ELSE LET k == (code % Len(pool)) + 1
         IN  <<pool[k]>> \o Shuffle(code \div Len(pool), Without(pool, k))

\* range(n)
Range(n) == [i \in 1..n |-> i - 1]

\* a seed call that leaves the generator as it was
np_random_seed_Ignored(state, seed) == state

\* np.random.seed(seed): the state after seeding, whatever it was before
np_random_seed(state, seed) == seed

\* n draws from range(n) with replacement in place of a permutation
RECURSIVE Draws(_, _, _)
Draws(code, n, k) ==
    IF k = 0 THEN <<>> ELSE <<code % n>> \o Draws(code \div n, n, k - 1)

np_random_permutation_WithReplacement(state, n) ==
    [value |-> Draws(state % Factorial(n), n, n),
     state |-> state \div Factorial(n)]

\* np.random.permutation(n): the array drawn and the state left
np_random_permutation(state, n) ==
    [value |-> Shuffle(state % Factorial(n), Range(n)),
     state |-> state \div Factorial(n)]

\* np.random.choice(n, size, replace=False): the first size entries of a
\* permutation of range(n)
np_random_choice(state, n, size) ==
    LET perm == np_random_permutation(state, n)
    IN  [value |-> SubSeq(perm.value, 1, size), state |-> perm.state]

\* round() in place of int(): the fraction rounded to nearest
train_size_Rounded(dataset_size) ==
    (TRAIN_FRACTION_TENTHS * dataset_size + 5) \div 10

\* int(TRAIN_FRACTION * dataset_size)
train_size(dataset_size) == (TRAIN_FRACTION_TENTHS * dataset_size) \div 10

\* the elements of seq that satisfy keep, in the order of seq
RECURSIVE Select(_, _)
Select(seq, keep) ==
    IF Len(seq) = 0 THEN <<>>
    ELSE (IF Head(seq) \in keep THEN <<Head(seq)>> ELSE <<>>)
         \o Select(Tail(seq), keep)

\* the for loop: i goes to train when i in train_indices, else to dev;
\* train_order and dev_order record the values of i in the order appended
split_paragraphs(ps, state) ==
    LET dataset_size  == Len(ps)
        choice        == np_random_choice(state, dataset_size,
                                          train_size(dataset_size))
        train_indices == {choice.value[j] : j \in 1..Len(choice.value)}
        perm          == np_random_permutation(choice.state, dataset_size)
        all           == {i : i \in 0..(dataset_size - 1)}
        train_order   == Select(perm.value, train_indices)
        dev_order     == Select(perm.value, all \ train_indices)
    IN  [status           |-> "done",
         train_paragraphs |-> [j \in 1..Len(train_order) |->
                                  ps[train_order[j] + 1]],
         dev_paragraphs   |-> [j \in 1..Len(dev_order) |->
                                  ps[dev_order[j] + 1]],
         train_order      |-> train_order,
         dev_order        |-> dev_order,
         train_indices    |-> train_indices,
         permutation      |-> perm.value,
         state            |-> perm.state]

-----------------------------------------------------------------------------
(* filter_questions, build_paragraph, build_paragraphs, build_result_object *)

SupportedTypes == {"factoid", "list"}

\* logging.warning("Skipping question %s. ..." % question["id"])
Warning(id, reason) == [id |-> id, reason |-> reason]

\* question["type"] in ["factoid", "list"]
IsSupportedType(q) == q.type \in SupportedTypes

\* the for loop of filter_questions from the i-th question on: the list
\* returned and the warnings logged
RECURSIVE FilterLoop(_, _, _, _)
FilterLoop(questions, i, result, logged) ==
    IF i > Len(questions) THEN [result |-> result, warnings |-> logged]
    ELSE IF ~IsSupportedType(questions[i])
    THEN FilterLoop(questions, i + 1, result, logged)
    ELSE IF Len(questions[i].snippets) = 0
    THEN FilterLoop(questions, i + 1, result,
                    Append(logged, Warning(questions[i].id, "No snippets.")))
    ELSE FilterLoop(questions, i + 1, Append(result, questions[i]), logged)

filter_questions(questions) == FilterLoop(questions, 1, <<>>, <<>>)

NoParagraph == [context |-> <<>>, qas |-> <<>>]

\* build_paragraph without the test "if answers is None"
build_paragraph_NoNoneTest(q) ==
    LET ctx == get_context(q)
        ans == get_answers(q, ctx.context)
    IN  IF ans.status \notin {"ok", "None"}
        THEN [status |-> ans.status, paragraph |-> NoParagraph,
              context_truncated |-> FALSE]
        ELSE [status |-> "ok",
              paragraph |->
                [context |-> Lower(ctx.context),
                 qas |-> << [id |-> q.id,
                             question |-> Lower(q.body),
                             answers |-> ans.answers,
                             original_answers |-> q.exact_answer,
                             question_type |-> q.type] >>],
              context_truncated |-> ctx.did_truncate]

\* status "ok": (paragraph, context_truncated); "None": None; otherwise the
\* exception get_answers raised
build_paragraph(q) ==
    LET ctx == get_context(q)
        ans == get_answers(q, ctx.context)
    IN  IF ans.status # "ok"
        THEN [status |-> ans.status, paragraph |-> NoParagraph,
              context_truncated |-> FALSE]
        ELSE [status |-> "ok",
              paragraph |->
                [context |-> Lower(ctx.context),
                 qas |-> << [id |-> q.id,
                             question |-> Lower(q.body),
                             answers |-> ans.answers,
                             original_answers |-> q.exact_answer,
                             question_type |-> q.type] >>],
              context_truncated |-> ctx.did_truncate]

\* the warning get_answers logs before it returns None
AnswerWarnings(q, status) ==
    IF status = "None" THEN <<Warning(q.id, "No matching answer.")>> ELSE <<>>

\* [p for p in paragraphs if p is not None]
RECURSIVE NotNone(_)
NotNone(results) ==
    IF Len(results) = 0 THEN <<>>
    ELSE (IF Head(results).status = "ok" THEN <<Head(results)>> ELSE <<>>)
         \o NotNone(Tail(results))

\* paragraphs, context_truncated = zip(*paragraphs) and the sum returned;
\* unpacking zip() of no arguments raises ValueError
collect_paragraphs(results) ==
    LET kept == NotNone(results)
    IN  IF Len(kept) = 0
        THEN [error |-> "ValueError", paragraphs |-> <<>>,
              contexts_truncated |-> 0]
        ELSE [error |-> "none",
              paragraphs |-> [i \in 1..Len(kept) |-> kept[i].paragraph],
              contexts_truncated |->
                  Cardinality({i \in 1..Len(kept) : kept[i].context_truncated})]

build_result_object(name, ps) ==
    [version |-> "1.0", data |-> << [title |-> name, paragraphs |-> ps] >>]

\* the statistics of convert_to_squad; max() of an empty list raises
RECURSIVE MaxOf(_)
MaxOf(numbers) ==
    IF Len(numbers) = 1 THEN numbers[1]
    ELSE LET m == MaxOf(Tail(numbers))
         IN  IF numbers[1] >= m THEN numbers[1] ELSE m

statistics(d, ps) ==
    IF Len(ps) = 0
    THEN [error |-> "ValueError", max_context_len |-> 0,
          num_factoid |-> 0, num_list |-> 0,
          num_factoid_original |-> 0, num_list_original |-> 0]
    ELSE [error |-> "none",
          max_context_len |->
              MaxOf([i \in 1..Len(ps) |-> NumTokens(ps[i].context)]),
          num_factoid |-> Cardinality({i \in 1..Len(ps) :
                             ps[i].qas[1].question_type = "factoid"}),
          num_list |-> Cardinality({i \in 1..Len(ps) :
                             ps[i].qas[1].question_type = "list"}),
          num_factoid_original |->
              Cardinality({i \in 1..Len(d) : d[i].type = "factoid"}),
          num_list_original |->
              Cardinality({i \in 1..Len(d) : d[i].type = "list"})]

-----------------------------------------------------------------------------
(* Values of the variables an operation under study does not use.          *)

NoQuestion == [id |-> 0, type |-> "factoid", body |-> <<>>,
               exact_answer |-> PyList(<<>>), snippets |-> <<>>]
Pending    == [status |-> "pending", answers |-> <<>>]
NoContext  == [status |-> "pending", context |-> <<>>, did_truncate |-> FALSE]
NoSplit    == [status |-> "pending", train_paragraphs |-> <<>>,
               dev_paragraphs |-> <<>>, train_order |-> <<>>,
               dev_order |-> <<>>, train_indices |-> {}, permutation |-> <<>>,
               state |-> 0]
NoDocument == build_result_object("", <<>>)
NoRun      == [paragraphs |-> <<>>, contexts_truncated |-> 0,
               train_paragraphs |-> <<>>, dev_paragraphs |-> <<>>,
               train_json |-> NoDocument, dev_json |-> NoDocument,
               train_written |-> FALSE, dev_written |-> FALSE,
               max_context_len |-> 0, num_factoid |-> 0, num_list |-> 0,
               num_factoid_original |-> 0, num_list_original |-> 0,
               error |-> "none"]

AnswersIdle ==
    question = NoQuestion /\ context = <<>> /\ answers = Pending
ContextIdle ==
    snippets = <<>> /\ context_result = NoContext
SplitIdle ==
    paragraphs = <<>> /\ rng = 0 /\ split_result = NoSplit
ProcsIdle ==
    procs = <<>>
ConvertIdle ==
    /\ data = <<>> /\ pc = "idle" /\ filtered = <<>> /\ built = <<>>
    /\ warnings = <<>> /\ run = NoRun

-----------------------------------------------------------------------------
(* SpecAnswers: get_answers on every question and context of the bounds.   *)

MaxContextLen == 4
MaxSlots == 2

\* the strings of at most n characters of A
StringsUpTo(A, n) == UNION {[1..k -> A] : k \in 0..n}

ContextAlphabet == {"a", "B", " ", "\n"}

AnswerStrings ==
    { <<"a">>, <<"B">>, <<"a", ".">>, <<"a", " ", "B">>,
      <<"T", "h", "e", " ", "a">>, <<>> }

AlternativeStrings == { <<"a">>, <<"B">>, <<>> }

AnswerSlots ==
    {PyStr(s) : s \in AnswerStrings}
    \cup {PyList(<<PyStr(s1), PyStr(s2)>>) :
             s1 \in AlternativeStrings, s2 \in AlternativeStrings}
    \cup {PyList(<<>>)}

ExactAnswers ==
    {PyStr(s) : s \in AnswerStrings}
    \cup {PyList(items) : items \in StringsUpTo(AnswerSlots, MaxSlots)}

InitAnswers ==
    /\ \E ea \in ExactAnswers :
         question = [NoQuestion EXCEPT !.id = 1, !.exact_answer = ea]
    /\ context \in StringsUpTo(ContextAlphabet, MaxContextLen)
    /\ answers = Pending
    /\ ContextIdle /\ SplitIdle /\ ProcsIdle /\ ConvertIdle

GetAnswers ==
    /\ answers.status = "pending"
    /\ answers' = get_answers(question, context)
    /\ UNCHANGED <<question, context, contextVars, splitVars, procs,
                   convertVars>>

NextAnswers == GetAnswers

SpecAnswers == InitAnswers /\ [][NextAnswers]_vars

\* a whole-word occurrence of sub at offset p of s
WholeWordAt(s, sub, p) ==
    /\ OccursAt(s, sub, p)
    /\ p = 0 \/ IsNonWordChar(s[p])
    /\ p + Len(sub) = Len(s) \/ IsNonWordChar(s[p + Len(sub) + 1])

\* C3: every answer span get_answers returns is a whole-word occurrence of
\* its text at its answer_start in the lowercased context: the text is
\* there, preceded by a non-word character or the start of the context and
\* followed by a non-word character or the end of the context.
C3_SpansAreWholeWordOccurrences ==
    answers.status = "ok" =>
        \A i \in 1..Len(answers.answers) :
            WholeWordAt(Lower(context), answers.answers[i].text,
                        answers.answers[i].answer_start)

\* C4: for an exact_answer that is a list of plain strings, every whole-word
\* occurrence of every non-empty cleaned answer in the lowercased context
\* is the answer_start of a span with that text.
C4_EveryWholeWordOccurrenceReported ==
    (/\ answers.status \in {"ok", "None"}
     /\ ~IsStr(question.exact_answer)
     /\ \A k \in 1..Len(question.exact_answer.items) :
            IsStr(question.exact_answer.items[k]))
    => \A k \in 1..Len(question.exact_answer.items) :
         LET text == clean_answer(question.exact_answer.items[k].str)
         IN  text # <<>> =>
               \A p \in 0..Len(context) :
                  WholeWordAt(Lower(context), text, p) =>
                     \E i \in 1..Len(answers.answers) :
                        /\ answers.answers[i].answer_start = p
                        /\ answers.answers[i].text = text

\* the answer slots of an exact_answer as the data model defines them: a
\* single string is one slot holding the whole string
WholeSlots(ea) == IF IsStr(ea) THEN <<ea>> ELSE ea.items

\* C10: every span's text is the cleaned candidate chosen for one answer
\* slot, a single-string exact_answer being one slot holding the whole
\* string.
C10_SpansAreWholeAnswers ==
    answers.status = "ok" =>
        \A i \in 1..Len(answers.answers) :
            \E k \in 1..Len(WholeSlots(question.exact_answer)) :
                answers.answers[i].text =
                    clean_answer(ChosenAnswer(Lower(context),
                                 WholeSlots(question.exact_answer)[k]))

-----------------------------------------------------------------------------
(* SpecContext: get_context on every snippet list of the bounds, the texts *)
(* chosen so that the running token count lands on, below and above the    *)
(* limit, with and without duplicates.                                     *)

MaxSnippets == 4

\* n one-letter words separated by single spaces: n tokens
Words(c, n) == [i \in 1..(2 * n - 1) |-> IF i % 2 = 1 THEN c ELSE " "]

HalfLimit == CONTEXT_TOKEN_LIMIT \div 2

SnippetTexts ==
    { Words("a", HalfLimit), Words("b", HalfLimit),
      Words("h", HalfLimit - 1), <<"e">>, <<"t", ".">> }

InitContext ==
    /\ snippets \in StringsUpTo({[text |-> t] : t \in SnippetTexts},
                                MaxSnippets)
    /\ context_result = NoContext
    /\ AnswersIdle /\ SplitIdle /\ ProcsIdle /\ ConvertIdle

GetContext ==
    /\ context_result.status = "pending"
    /\ context_result' = get_context([NoQuestion EXCEPT !.snippets = snippets])
    /\ UNCHANGED <<snippets, answerVars, splitVars, procs, convertVars>>

NextContext == GetContext

SpecContext == InitContext /\ [][NextContext]_vars

\* the snippet texts with every repetition of an earlier text removed
UniqueSnippets ==
    LET first == {i \in 1..Len(snippets) :
                     \A j \in 1..(i - 1) : snippets[j].text # snippets[i].text}
        Nth(n) == CHOOSE i \in first :
                     Cardinality({j \in first : j <= i}) = n
    IN  [n \in 1..Cardinality(first) |-> snippets[Nth(n)].text]

\* the token count of the first n unique snippets
RECURSIVE CumulativeTokens(_, _)
CumulativeTokens(texts, n) ==
    IF n = 0 THEN 0
    ELSE CumulativeTokens(texts, n - 1) + NumTokens(texts[n])

\* C6: the limit is applied to the de-duplicated snippets: when their
\* cumulative token count never exceeds 700 the context is all of them,
\* once each, in order, joined by single spaces, and the flag is false;
\* when it first exceeds 700 on unique snippet k the flag is true and the
\* context is unique snippets 1..k-1.
C6_TruncationOverUniqueSnippets ==
    context_result.status = "done" =>
        LET u    == UniqueSnippets
            over == {k \in 1..Len(u) :
                        CumulativeTokens(u, k) > CONTEXT_TOKEN_LIMIT}
        IN  IF over = {}
            THEN /\ context_result.context = Join(u)
                 /\ context_result.did_truncate = FALSE
            ELSE LET k == CHOOSE x \in over : \A y \in over : x <= y
                 IN  /\ context_result.context = Join(SubSeq(u, 1, k - 1))
                     /\ context_result.did_truncate = TRUE

\* a duplicate is skipped, the unique snippets before the cut add up to
\* exactly the limit and are kept, and the next unique snippet is cut
C6_Witness ==
    /\ context_result.status = "done"
    /\ context_result.did_truncate
    /\ Len(UniqueSnippets) < Len(snippets)
    /\ NumTokens(context_result.context) = CONTEXT_TOKEN_LIMIT

-----------------------------------------------------------------------------
(* SpecSplit: split_paragraphs on every paragraph list of the bounds and   *)
(* every outcome of the two draws.                                         *)

MaxParagraphs == 4

\* paragraph records, opaque to split_paragraphs
ParagraphPool == {"P", "Q"}

InitSplit ==
    /\ paragraphs \in StringsUpTo(ParagraphPool, MaxParagraphs)
    /\ rng \in 0..(Factorial(Len(paragraphs)) * Factorial(Len(paragraphs)) - 1)
    /\ split_result = NoSplit
    /\ AnswersIdle /\ ContextIdle /\ ProcsIdle /\ ConvertIdle

SplitParagraphs ==
    /\ split_result.status = "pending"
    /\ split_result' = split_paragraphs(paragraphs, rng)
    /\ rng' = split_result'.state
    /\ UNCHANGED <<paragraphs, answerVars, contextVars, procs, convertVars>>

NextSplit == SplitParagraphs

SpecSplit == InitSplit /\ [][NextSplit]_vars

\* the number of times x occurs in seq
Count(seq, x) == Cardinality({j \in 1..Len(seq) : seq[j] = x})

\* C1: every input position 0..N-1 is appended exactly once, to train or to
\* dev and not to both, and |train| + |dev| = N.
C1_PartitionOfPositions ==
    split_result.status = "done" =>
        /\ \A i \in 0..(Len(paragraphs) - 1) :
              Count(split_result.train_order, i)
                + Count(split_result.dev_order, i) = 1
        /\ Len(split_result.train_paragraphs)
             + Len(split_result.dev_paragraphs) = Len(paragraphs)
        /\ \A j \in 1..Len(split_result.train_paragraphs) :
              split_result.train_paragraphs[j]
                = paragraphs[split_result.train_order[j] + 1]
        /\ \A j \in 1..Len(split_result.dev_paragraphs) :
              split_result.dev_paragraphs[j]
                = paragraphs[split_result.dev_order[j] + 1]

\* a split with both sides populated whose order is not the input order
C1_Witness ==
    /\ split_result.status = "done"
    /\ Len(paragraphs) = MaxParagraphs
    /\ Len(split_result.train_order) >= 2
    /\ Len(split_result.dev_order) >= 1
    /\ split_result.train_order[1] > split_result.train_order[2]

\* seq with the elements outside keep removed is sub
IsSubsequenceOn(sub, seq, keep) ==
    LET idx == {j \in 1..Len(seq) : seq[j] \in keep}
    IN  /\ Len(sub) = Cardinality(idx)
        /\ \A n \in 1..Len(sub) :
              \E j \in idx : /\ Cardinality({m \in idx : m <= j}) = n
                             /\ sub[n] = seq[j]

-----------------------------------------------------------------------------
(* SpecRuns: two independent processes, each importing the module (which   *)
(* seeds np.random) and then splitting its own paragraphs, the two lists   *)
(* of the same length.                                                     *)

\* what the generator may hold before it is seeded
UnseededStates == {0, 1, 2}

Runs == {1, 2}

InitRuns ==
    /\ \E n \in 0..MaxParagraphs :
         procs \in [Runs -> [pc : {"start"},
                             rng : UnseededStates,
                             paragraphs : [1..n -> ParagraphPool],
                             result : {NoSplit}]]
    /\ AnswersIdle /\ ContextIdle /\ SplitIdle /\ ConvertIdle

\* module import: np.random.seed(1234)
Import(r) ==
    /\ procs[r].pc = "start"
    /\ procs' = [procs EXCEPT ![r].pc = "imported",
                              ![r].rng = np_random_seed(procs[r].rng, SEED)]
    /\ UNCHANGED <<answerVars, contextVars, splitVars, convertVars>>

RunSplit(r) ==
    /\ procs[r].pc = "imported"
    /\ LET res == split_paragraphs(procs[r].paragraphs, procs[r].rng)
       IN  procs' = [procs EXCEPT ![r].pc = "done",
                                  ![r].rng = res.state,
                                  ![r].result = res]
    /\ UNCHANGED <<answerVars, contextVars, splitVars, convertVars>>

NextRuns == \E r \in Runs : Import(r) \/ RunSplit(r)

SpecRuns == InitRuns /\ [][NextRuns]_vars

\* C7: two runs on inputs of the same length assign the same positions to
\* train and to dev in the same order, whatever the paragraphs hold; on the
\* same input the two train lists and the two dev lists are identical.
C7_SplitDeterministic ==
    (procs # <<>> /\ \A r \in Runs : procs[r].pc = "done") =>
        /\ procs[1].result.train_order = procs[2].result.train_order
        /\ procs[1].result.dev_order = procs[2].result.dev_order
        /\ procs[1].paragraphs = procs[2].paragraphs =>
              /\ procs[1].result.train_paragraphs
                   = procs[2].result.train_paragraphs
              /\ procs[1].result.dev_paragraphs
                   = procs[2].result.dev_paragraphs

\* both runs done, from different unseeded states and different contents
C7_Witness ==
    /\ procs # <<>>
    /\ \A r \in Runs : procs[r].pc = "done"
    /\ Len(procs[1].paragraphs) = MaxParagraphs
    /\ procs[1].paragraphs # procs[2].paragraphs
    /\ procs[1].result.train_paragraphs # procs[2].result.train_paragraphs
    /\ Len(procs[1].result.dev_order) >= 1

-----------------------------------------------------------------------------
(* Spec: convert_to_squad on every question file of the bounds, one step   *)
(* per stage, in a process that has imported the module.                   *)

MaxQuestions == 2

Str(s) == PyStr(s)
Snippet(t) == [text |-> t]

\* the shapes of question the file may hold; ids are given by position
QuestionPool ==
    { \* answer found in the context
      [type |-> "factoid", body |-> <<"B", "?">>,
       exact_answer |-> PyList(<<Str(<<"a">>)>>),
       snippets |-> <<Snippet(<<"B", " ", "a">>)>>],
      \* answer not in the context
      [type |-> "factoid", body |-> <<"B", "?">>,
       exact_answer |-> PyList(<<Str(<<"e">>)>>),
       snippets |-> <<Snippet(<<"B", " ", "a">>)>>],
      \* no snippets
      [type |-> "list", body |-> <<"B", "?">>,
       exact_answer |-> PyList(<<Str(<<"a">>)>>),
       snippets |-> <<>>],
      \* alternatives, the second one in the context; a repeated snippet
      [type |-> "list", body |-> <<"B", "?">>,
       exact_answer |-> PyList(<<PyList(<<Str(<<"e">>), Str(<<"A">>)>>),
                                 Str(<<"b", ".">>)>>),
       snippets |-> <<Snippet(<<"a", " ", "B", ".">>),
                      Snippet(<<"a", " ", "B", ".">>),
                      Snippet(<<"a">>)>>],
      \* alternatives, none in the context
      [type |-> "list", body |-> <<"B", "?">>,
       exact_answer |-> PyList(<<PyList(<<Str(<<"e">>), Str(<<"h">>)>>)>>),
       snippets |-> <<Snippet(<<"a", " ", "B", ".">>)>>],
      \* exact_answer a single string
      [type |-> "factoid", body |-> <<"B", "?">>,
       exact_answer |-> Str(<<"a", " ", "b">>),
       snippets |-> <<Snippet(<<"a", " ", "b", " ">>)>>],
      \* unsupported types
      [type |-> "yesno", body |-> <<"B", "?">>,
       exact_answer |-> Str(<<"e">>),
       snippets |-> <<Snippet(<<"B", " ", "a">>)>>],
      [type |-> "summary", body |-> <<"B", "?">>,
       exact_answer |-> PyList(<<>>),
       snippets |-> <<>>],
      \* an empty exact_answer list
      [type |-> "list", body |-> <<"B", "?">>,
       exact_answer |-> PyList(<<>>),
       snippets |-> <<Snippet(<<"a">>)>>] }

WithId(shape, id) ==
    [id |-> id, type |-> shape.type, body |-> shape.body,
     exact_answer |-> shape.exact_answer, snippets |-> shape.snippets]

Init ==
    /\ \E shapes \in StringsUpTo(QuestionPool, MaxQuestions) :
          data = [i \in 1..Len(shapes) |-> WithId(shapes[i], i)]
    /\ pc = "filter_questions"
    /\ filtered = <<>>
    /\ built = <<>>
    /\ warnings = <<>>
    /\ run = NoRun
    /\ paragraphs = <<>>
    /\ rng = np_random_seed(0, SEED)
    /\ split_result = NoSplit
    /\ AnswersIdle /\ ContextIdle /\ ProcsIdle

\* build_paragraphs: filter_questions(data["questions"])
FilterQuestions ==
    /\ pc = "filter_questions"
    /\ LET f == filter_questions(data)
       IN  /\ filtered' = f.result
           /\ warnings' = warnings \o f.warnings
    /\ pc' = "build_paragraph"
    /\ UNCHANGED <<data, built, run, answerVars, contextVars, splitVars, procs>>

\* build_paragraphs: build_paragraph(question) for the next filtered question
BuildParagraph ==
    /\ pc = "build_paragraph"
    /\ Len(built) < Len(filtered)
    /\ LET q   == filtered[Len(built) + 1]
           res == build_paragraph(q)
       IN  /\ warnings' = warnings \o AnswerWarnings(q, res.status)
           /\ IF res.status \in {"ok", "None"}
              THEN /\ built' = Append(built, res)
                   /\ UNCHANGED <<pc, run>>
              ELSE /\ pc' = "raised"
                   /\ run' = [run EXCEPT !.error = res.status]
                   /\ UNCHANGED built
    /\ UNCHANGED <<data, filtered, answerVars, contextVars, splitVars, procs>>

\* build_paragraphs: drop the Nones, unzip, sum
CollectParagraphs ==
    /\ pc = "build_paragraph"
    /\ Len(built) = Len(filtered)
    /\ LET c == collect_paragraphs(built)
       IN  IF c.error # "none"
           THEN /\ pc' = "raised"
                /\ run' = [run EXCEPT !.error = c.error]
           ELSE /\ pc' = "split_paragraphs"
                /\ run' = [run EXCEPT !.paragraphs = c.paragraphs,
                              !.contexts_truncated = c.contexts_truncated]
    /\ UNCHANGED <<data, filtered, built, warnings, answerVars, contextVars,
                   splitVars, procs>>

Split ==
    /\ pc = "split_paragraphs"
    /\ LET res == split_paragraphs(run.paragraphs, rng)
       IN  /\ run' = [run EXCEPT !.train_paragraphs = res.train_paragraphs,
                                 !.dev_paragraphs = res.dev_paragraphs]
           /\ rng' = res.state
    /\ pc' = "write_train"
    /\ UNCHANGED <<data, filtered, built, warnings, answerVars, contextVars,
                   paragraphs, split_result, procs>>

WriteTrain ==
    /\ pc = "write_train"
    /\ run' = [run EXCEPT
                 !.train_json = build_result_object("train",
                                                    run.train_paragraphs),
                 !.train_written = TRUE]
    /\ pc' = "write_dev"
    /\ UNCHANGED <<data, filtered, built, warnings, answerVars, contextVars,
                   splitVars, procs>>

WriteDev ==
    /\ pc = "write_dev"
    /\ run' = [run EXCEPT
                 !.dev_json = build_result_object("dev", run.dev_paragraphs),
                 !.dev_written = TRUE]
    /\ pc' = "statistics"
    /\ UNCHANGED <<data, filtered, built, warnings, answerVars, contextVars,
                   splitVars, procs>>

Statistics ==
    /\ pc = "statistics"
    /\ LET st == statistics(data, run.paragraphs)
       IN  IF st.error # "none"
           THEN /\ pc' = "raised"
                /\ run' = [run EXCEPT !.error = st.error]
           ELSE /\ pc' = "done"
                /\ run' = [run EXCEPT !.max_context_len = st.max_context_len,
                                      !.num_factoid = st.num_factoid,
                                      !.num_list = st.num_list,
                                      !.num_factoid_original =
                                          st.num_factoid_original,
                                      !.num_list_original =
                                          st.num_list_original]
    /\ UNCHANGED <<data, filtered, built, warnings, answerVars, contextVars,
                   splitVars, procs>>

Next ==
    \/ FilterQuestions
    \/ BuildParagraph
    \/ CollectParagraphs
    \/ Split
    \/ WriteTrain
    \/ WriteDev
    \/ Statistics

Spec == Init /\ [][Next]_vars

\* the ids of the questions of a list of paragraphs
Ids(ps) == {ps[i].qas[1].id : i \in 1..Len(ps)}

\* the ids of the questions written to train.json or dev.json
OutputIds ==
    Ids(run.train_json.data[1].paragraphs)
        \cup Ids(run.dev_json.data[1].paragraphs)

\* answer resolution locates no span for q in the context built for it
ZeroSpans(q) ==
    LET ctx   == Lower(get_context(q).context)
        slots == Iterate(q.exact_answer)
    IN  \A k \in 1..Len(slots) :
           find_all_substring_positions(
               ctx, clean_answer(ChosenAnswer(ctx, slots[k]))) = <<>>

NonEmptyAnswers(ps) ==
    \A i \in 1..Len(ps) : Len(ps[i].qas[1].answers) >= 1

\* C2: every paragraph build_paragraph emits, build_paragraphs returns and
\* train.json or dev.json holds has at least one answer, and a question
\* whose answer resolution locates no span is in none of them.
C2_EmittedParagraphsHaveAnswers ==
    /\ NonEmptyAnswers([i \in 1..Len(NotNone(built)) |->
                           NotNone(built)[i].paragraph])
    /\ NonEmptyAnswers(run.paragraphs)
    /\ NonEmptyAnswers(run.train_json.data[1].paragraphs)
    /\ NonEmptyAnswers(run.dev_json.data[1].paragraphs)
    /\ \A k \in 1..Len(filtered) :
          (k <= Len(built) /\ ZeroSpans(filtered[k])) =>
              /\ built[k].status = "None"
              /\ filtered[k].id \notin Ids(run.paragraphs) \cup OutputIds

\* the run has written both files, one question kept and one dropped for
\* having no span
C2_Witness ==
    /\ pc = "done"
    /\ OutputIds # {}
    /\ \E k \in 1..Len(filtered) : ZeroSpans(filtered[k])

\* a document whose supported questions have an answer in every slot
WellFormed(d) ==
    \A i \in 1..Len(d) :
        IsSupportedType(d[i]) =>
            /\ Len(Iterate(d[i].exact_answer)) > 0
            /\ \A k \in 1..Len(Iterate(d[i].exact_answer)) :
                  ~RaisesIndexError(<<>>, Iterate(d[i].exact_answer)[k])

\* C5: on a well-formed document no stage raises, whatever questions are
\* skipped: the run goes on to write both files and ends normally.
C5_SkipsNeverAbort ==
    WellFormed(data) =>
        /\ pc # "raised"
        /\ pc = "done" => run.train_written /\ run.dev_written

\* C8: when the run has ended, every question of the document that is in
\* neither output file has a warning naming its id, and no question that is
\* in an output file has one.
C8_EveryDropIsLogged ==
    pc = "done" =>
        \A i \in 1..Len(data) :
            /\ data[i].id \notin OutputIds =>
                  \E w \in 1..Len(warnings) : warnings[w].id = data[i].id
            /\ data[i].id \in OutputIds =>
                  \A w \in 1..Len(warnings) : warnings[w].id # data[i].id

=============================================================================
